---------------------------- MODULE Spec2Model ----------------------------
(***************************************************************************)
(* A model of safie-mediafile's segmented retrieval pipeline:              *)
(*   _cli/_downloader.py   download_media_from_device and its helpers      *)
(*   __init__.py           create_and_download_mediafile                   *)
(*   _endpoints/_mediafile.py  MediaFileAPI (create, poll, download,       *)
(*                             delete)                                     *)
(*   _cli/_cli_app.py      main, which runs the job under asyncio.run      *)
(*                                                                         *)
(* Time is counted in half minutes, so that a duration below the one       *)
(* minute minimum exists: timedelta(minutes=1) is 2 and                    *)
(* timedelta(minutes=10) is 20.                                            *)
(*                                                                         *)
(* The event loop is cooperative: a coroutine runs from one await to the   *)
(* next without interruption, so every action below is the code between    *)
(* the completion of one await and the suspension at the next one.  The    *)
(* answers of the remote service and the exit status of ffmpeg are the     *)
(* inputs of the actions, drawn with \E.                                   *)
(***************************************************************************)
EXTENDS Integers, Sequences, FiniteSets, TLC

\* --------------------------------------------------------------- constants
\* _downloader.py:15  _MIN_DURATION = timedelta(minutes=1), in half minutes
_MIN_DURATION == 2
\* _downloader.py:16  _MAX_DURATION = timedelta(minutes=10), in half minutes
_MAX_DURATION == 20
\* _mediafile.py:101  max_retries: int = 10
DEFAULT_MAX_RETRIES == 10

\* ------------------------------------------------------------------ bounds
\* start_time ranges over 0..MaxStart, end_time over 0..MaxEnd
MaxStart == 1
MaxEnd == 22
\* segment_duration of a direct call of _create_time_segments: 1..MaxSegmentDuration
MaxSegmentDuration == 21
\* max_retries of a direct call of wait_for_mediafile_ready: 0..MaxRetriesArg
MaxRetriesArg == 5

StartTimes == 0..MaxStart
EndTimes == 0..MaxEnd
\* the download URLs the remote service hands out
Urls == {"U1", "U2"}
\* the request identifiers of a direct call of wait_for_mediafile_ready
RequestIds == {1, 2}

None == "None"

Min(a, b) == IF a < b THEN a ELSE b

\* ------------------------------------------------- _create_time_segments
\* The while loop of _create_time_segments (_downloader.py:62-68), one
\* recursion per iteration; segments is the list built so far.
RECURSIVE SegmentLoop(_, _, _, _)
SegmentLoop(current_start, end_time_, segment_duration_, segs) ==
    IF current_start < end_time_
    THEN LET segment_end == Min(current_start + segment_duration_, end_time_)
         IN  SegmentLoop(segment_end, end_time_, segment_duration_,
                         Append(segs, <<current_start, segment_end>>))
    ELSE segs

\* A loop step that forgets the min() with end_time.
RECURSIVE SegmentLoopNoClamp(_, _, _, _)
SegmentLoopNoClamp(current_start, end_time_, segment_duration_, segs) ==
    IF current_start < end_time_
    THEN LET segment_end == current_start + segment_duration_
         IN  SegmentLoopNoClamp(segment_end, end_time_, segment_duration_,
                                Append(segs, <<current_start, segment_end>>))
    ELSE segs

_create_time_segments_no_clamp(st, en, d) == SegmentLoopNoClamp(st, en, d, <<>>)

\* A cut that starts with a segment of half a minute.
_create_time_segments_short_head(st, en, d) ==
    IF st < en THEN SegmentLoop(st + 1, en, d, <<<<st, st + 1>>>>) ELSE <<>>

\* A loop whose test comes after its body: one segment even for an empty range.
_create_time_segments_do_while(st, en, d) ==
    IF st < en THEN SegmentLoop(st, en, d, <<>>) ELSE <<<<st, Min(st + d, en)>>>>

_create_time_segments(st, en, d) == SegmentLoop(st, en, d, <<>>)


\* ------------------------------------------------------------------- state
VARIABLES
    start_time,        \* download_media_from_device's start_time
    end_time,          \* download_media_from_device's end_time
    segment_duration,  \* the third argument of _create_time_segments
    max_retries,       \* wait_for_mediafile_ready's max_retries
    jobPc,             \* where the main coroutine (or the direct call) stands
    jobError,          \* the exception download_media_from_device raised
    segments,          \* _create_time_segments' result
    segments_paths,    \* _download_segments' segments_paths (segment indices)
    tasks,             \* one record per segment task: the coroutine's locals
    obs,               \* per task: the requests it issued, the answers it got
    completed,         \* the task indices in the order the tasks finished
    remote,            \* the export requests present on the remote service
    loopBlockedBy,     \* who holds the loop's thread inside subprocess.run:
                       \* Nobody, TaskHolder(i) or MainHolder
    workspace,         \* the TemporaryDirectory: "none", "exists", "destroyed"
    files,             \* workspace files: name -> media duration it holds
    output,            \* the file at output_path: its state and media duration
    mergeCalls,        \* how many times _merge_segments was entered
    manifest,          \* the lines written to filelist.txt (segment indices)
    concatCalls,       \* the inputs of each ffmpeg concat invocation
    time_string,       \* _parse_time_string's time_string, as its parts
    default_tz,        \* _parse_time_string's default_tz
    fromisoformat_accepts_z,  \* does the interpreter's datetime.fromisoformat
                       \* read a trailing Z (Python 3.11 and later do)
    parsed             \* what _parse_time_string returned or raised

vars == <<start_time, end_time, segment_duration, max_retries, jobPc, jobError,
          segments, segments_paths, tasks, obs, completed, remote,
          loopBlockedBy, workspace, files, output, mergeCalls, manifest,
          concatCalls, time_string, default_tz, fromisoformat_accepts_z,
          parsed>>

parseVars == <<time_string, default_tz, fromisoformat_accepts_z, parsed>>
\* The arguments of the calls, and the variables of _parse_time_string, which
\* no step of the job changes.
inputVars == <<start_time, end_time, segment_duration, max_retries, parseVars>>
fsVars == <<workspace, files, output, manifest>>
mergeVars == <<mergeCalls, concatCalls>>

\* The segment tasks, numbered 1..n; task i handles segment index i - 1.
TaskIds == DOMAIN tasks

\* temp_dir / f"{i}_{output_file_name}" for segment index idx (_downloader.py:83)
SegmentFile(idx) == <<"segment", idx>>
\* output_path.with_suffix(".temp.mp4") (_downloader.py:125)
TempFile(idx) == <<"temp", idx>>
\* os.path.join(dirname(segment_files[0]), "filelist.txt") (_downloader.py:210)
FileList == <<"filelist", 0>>

\* The request id the remote service assigns to the export of task i
\* (result["request_id"], _mediafile.py:42); 0 stands for "none yet".
RequestIdOf(i) == i

Nobody == <<>>
TaskHolder(i) == <<"task", i>>
MainHolder == <<"main", 0>>

NoError == [type |-> "None"]
\* The exceptions of _exceptions.py and of the libraries, by class name.
Error(type) == [type |-> type]
\* SafieMediaFileTimeoutError(f"... timed out: {request_id}") (_mediafile.py:132)
TimeoutError(request_id) ==
    [type |-> "SafieMediaFileTimeoutError", request_id |-> request_id]

\* No file: a function with an empty domain.
NoFiles == [n \in {} |-> 0]
WriteFile(fs, name, duration) ==
    [n \in (DOMAIN fs) \cup {name} |-> IF n = name THEN duration ELSE fs[n]]
RemoveFile(fs, name) == [n \in (DOMAIN fs) \ {name} |-> fs[n]]
Exists(fs, name) == name \in DOMAIN fs
\* shutil.move(src, dst) of an existing file
MoveFile(fs, src, dst) == RemoveFile(WriteFile(fs, dst, fs[src]), src)

\* What output_path holds: nothing, a file that was there before the job
\* ("old"), a part of a file ("partial"), or a whole media file.
NoOutput == [state |-> "absent", duration |-> 0]
OldOutput == [state |-> "old", duration |-> 0]

\* A coroutine's first state, before the loop has run it (asyncio.create_task).
NewTask(seg) ==
    [pc |-> "created", direct |-> FALSE,
     start_time |-> seg[1], end_time |-> seg[2],
     adjusted_end_time |-> seg[2], needs_clipping |-> FALSE,
     request_id |-> 0, attempt |-> 0,
     download_success |-> FALSE, download_url |-> None, error |-> NoError]

NewObs ==
    [creates |-> <<>>, queries |-> 0, sleeps |-> 0, responses |-> <<>>,
     downloads |-> <<>>, deletes |-> <<>>, deleteFailed |-> FALSE,
     trims |-> <<>>]

\* The states in which a task has finished (asyncio: task.done()).
Finished == {"done", "failed", "cancelled"}

\* ------------------------------------------------------ _parse_time_string
\* A time string is read as a sequence of parts: a well-formed date and time
\* without zone ("D1", "D2": two different wall-clock readings, such as
\* 2023-01-01T12:00:00), a UTC offset suffix ("+00:00", "+09:00"), the
\* character "Z", or any other text ("x").
MaxParts == 3
DateTimes == {"D1", "D2"}
Offsets == {"+00:00", "+09:00"}
Parts == DateTimes \cup Offsets \cup {"Z", "x"}
TimeStrings == UNION {[1..n -> Parts] : n \in 0..MaxParts}
UTC == "+00:00"
\* default_tz is gettz(timezone_str) (_cli_app.py:99) or, in a direct call,
\* any tzinfo or None.
DefaultTimezones == {None, "+00:00", "+09:00", "-05:00"}

\* A datetime object: its wall-clock fields and its tzinfo.
DateTime(wall, tzinfo) ==
    [kind |-> "datetime", wall |-> wall, tzinfo |-> tzinfo, message |-> ""]
ValueError(message) ==
    [kind |-> "ValueError", wall |-> None, tzinfo |-> None, message |-> message]
NotParsed == [kind |-> "not called", wall |-> None, tzinfo |-> None, message |-> ""]

\* str.endswith and str.replace (which replaces every occurrence).
endswith(s, part) == Len(s) > 0 /\ s[Len(s)] = part
replace(s, old, new) == [k \in 1..Len(s) |-> IF s[k] = old THEN new ELSE s[k]]

\* datetime.fromisoformat: a date and time, followed by nothing or by an
\* offset, or (on the interpreters that read it) by Z; anything else raises
\* ValueError("Invalid isoformat string: ...").
fromisoformat(s) ==
    IF Len(s) = 1 /\ s[1] \in DateTimes
    THEN DateTime(s[1], None)
    ELSE IF Len(s) = 2 /\ s[1] \in DateTimes /\ s[2] \in Offsets
    THEN DateTime(s[1], s[2])
    ELSE IF Len(s) = 2 /\ s[1] \in DateTimes /\ s[2] = "Z"
            /\ fromisoformat_accepts_z
    THEN DateTime(s[1], UTC)
    ELSE ValueError("Invalid isoformat string")

\* A default that also replaces the offset the string carried.
ApplyDefaultTzAlways(dt, default_tz_) ==
    IF default_tz_ # None THEN [dt EXCEPT !.tzinfo = default_tz_] ELSE dt

\* if dt.tzinfo is None and default_tz is not None:
\*     dt = dt.replace(tzinfo=default_tz)            (_cli_app.py:31-32)
ApplyDefaultTz(dt, default_tz_) ==
    IF dt.tzinfo = None /\ default_tz_ # None
    THEN [dt EXCEPT !.tzinfo = default_tz_]
    ELSE dt

\* _parse_time_string (_cli_app.py:27-40). The second fromisoformat is
\* called inside the except clause, outside any try: what it raises leaves
\* the function as it is.
_parse_time_string(time_string_, default_tz_) ==
    LET dt == fromisoformat(time_string_)
    IN  IF dt.kind = "datetime"
        THEN ApplyDefaultTz(dt, default_tz_)
        ELSE IF endswith(time_string_, "Z")
        THEN fromisoformat(replace(time_string_, "Z", "+00:00"))
        ELSE ValueError("Invalid time format")

\* The job never calls _parse_time_string: main has parsed its arguments
\* before it starts the job.
ParseIdle ==
    /\ time_string = <<>>
    /\ default_tz = None
    /\ fromisoformat_accepts_z = FALSE
    /\ parsed = NotParsed

InitCommon ==
    /\ jobError = NoError
    /\ segments = <<>>
    /\ segments_paths = <<>>
    /\ completed = <<>>
    /\ remote = {}
    /\ loopBlockedBy = Nobody
    /\ workspace = "none"
    /\ files = NoFiles
    /\ mergeCalls = 0
    /\ manifest = <<>>
    /\ concatCalls = <<>>

\* main (_cli_app.py:108-118) calls download_media_from_device under
\* asyncio.run; the job's first await is find_device_id (_downloader.py:30).
Init ==
    /\ start_time \in StartTimes
    /\ end_time \in EndTimes
    /\ segment_duration = _MAX_DURATION
    /\ max_retries = DEFAULT_MAX_RETRIES
    /\ jobPc = "find_device_id"
    /\ tasks = <<>>
    /\ obs = <<>>
    /\ output \in {NoOutput, OldOutput}
    /\ InitCommon
    /\ ParseIdle

\* ------------------------------------------------------- the segment tasks
\* The loop runs a task's step only while the main coroutine is suspended
\* (in asyncio.gather, or in the awaited direct call) and no coroutine holds
\* the thread inside a blocking subprocess.run.
LoopRuns ==
    /\ loopBlockedBy = Nobody
    /\ jobPc \in {"gather", "direct_call"}

\* Every task of the gather has had its first step: the loop's ready queue
\* is first-in first-out, so the first steps run in creation order before any
\* answer of the network is handled.
AllStarted == \A j \in TaskIds : tasks[j].pc # "created"

\* A task that answers an exception by asking for the export once more.
RetryInDownloadMedia(i, t, o, err) ==
    IF Len(o.creates) = 1
    THEN /\ tasks' = [tasks EXCEPT ![i] =
                         [t EXCEPT !.pc = "creating", !.request_id = 0,
                                   !.attempt = 0, !.download_success = FALSE,
                                   !.download_url = None, !.error = NoError]]
         /\ obs' = [obs EXCEPT ![i] =
                       [o EXCEPT !.creates = Append(@, o.creates[1])]]
         /\ UNCHANGED <<files, completed>>
    ELSE /\ tasks' = [tasks EXCEPT ![i] = [t EXCEPT !.pc = "failed", !.error = err]]
         /\ obs' = [obs EXCEPT ![i] = o]
         /\ files' = RemoveFile(files, SegmentFile(i - 1))
         /\ completed' = Append(completed, i)

\* An exception leaves the task.  Inside _download_media the except clause
\* unlinks the segment file first (_downloader.py:185-187).
RaiseInDownloadMedia(i, t, o, err) ==
    /\ tasks' = [tasks EXCEPT ![i] = [t EXCEPT !.pc = "failed", !.error = err]]
    /\ obs' = [obs EXCEPT ![i] = o]
    /\ files' = RemoveFile(files, SegmentFile(i - 1))
    /\ completed' = Append(completed, i)

\* An off-by-one loop bound: range(max_retries + 1).
RetryRangePlusOne(n) == n + 1

\* range(max_retries) (_mediafile.py:119): the number of loop iterations.
RetryRange(n) == n

\* The head of one iteration of wait_for_mediafile_ready's for loop
\* (_mediafile.py:119-120): the next status query is sent, or the loop is
\* exhausted and the timeout is raised (_mediafile.py:132).
PollIteration(i, t, o) ==
    IF t.attempt < RetryRange(max_retries)
    THEN /\ tasks' = [tasks EXCEPT ![i] =
                         [t EXCEPT !.attempt = @ + 1, !.pc = "querying"]]
         /\ obs' = [obs EXCEPT ![i] = [o EXCEPT !.queries = @ + 1]]
         /\ UNCHANGED <<files, completed>>
    ELSE RaiseInDownloadMedia(i, t, o, TimeoutError(t.request_id))

\* A poller that does not look at FAILED.
PollDecisionIgnoresFailed(state) ==
    IF state = "AVAILABLE" THEN "return" ELSE "sleep"

\* A poller that returns on the first status that is not FAILED.
PollDecisionReturnsEarly(state) ==
    IF state = "FAILED" THEN "raise" ELSE "return"

\* What wait_for_mediafile_ready does with a status (_mediafile.py:122-130).
PollDecision(state) ==
    IF state = "AVAILABLE" THEN "return"
    ELSE IF state = "FAILED" THEN "raise"
    ELSE "sleep"

\* A poller that hands out a fixed URL instead of the response's.
ReturnedUrlFixed(status) == "U1"

\* return status["url"] (_mediafile.py:124)
ReturnedUrl(status) == status.url

\* A finally clause that deletes whatever the download did.
ShouldDeleteAlways(download_success) == TRUE

\* A finally clause without the DELETE.
ShouldDeleteNever(download_success) == FALSE

\* if download_success: (__init__.py:45)
ShouldDelete(download_success) == download_success

\* A clip that keeps the padded duration.
ClipDurationPadded(t) == t.adjusted_end_time - t.start_time

\* clip_duration = (original_end_time - start_time) (_downloader.py:128)
ClipDuration(t) == t.end_time - t.start_time

\* The first step of _download_with_clipping (_downloader.py:103-119), into
\* _download_media (174-177) and create_and_download_mediafile (32-35), up
\* to the await of the POST of create_mediafile (_mediafile.py:34-39).
TaskStart(i) ==
    /\ LoopRuns
    /\ tasks[i].pc = "created"
    /\ \A j \in TaskIds : j < i => tasks[j].pc # "created"
    /\ LET t == tasks[i]
           duration == t.end_time - t.start_time
           clip == duration < _MIN_DURATION
           adjusted == IF clip THEN t.start_time + _MIN_DURATION ELSE t.end_time
       IN  /\ tasks' = [tasks EXCEPT ![i] =
                           [t EXCEPT !.pc = "creating",
                                     !.needs_clipping = clip,
                                     !.adjusted_end_time = adjusted]]
           /\ obs' = [obs EXCEPT ![i].creates =
                         Append(@, <<t.start_time, adjusted>>)]
           \* open(output_path, "wb") creates the empty segment file
           /\ files' = WriteFile(files, SegmentFile(i - 1), 0)
    /\ UNCHANGED <<inputVars, jobPc, jobError, segments, segments_paths,
                   completed, remote, loopBlockedBy, workspace, output,
                   manifest, mergeVars>>

\* The POST answers (_client.py:57-60, _mediafile.py:41-42): with a request
\* id, and wait_for_mediafile_ready starts; or raise_for_status raises.
CreateReturn(i) ==
    /\ LoopRuns /\ AllStarted
    /\ tasks[i].pc = "creating"
    /\ \E ok \in BOOLEAN :
          IF ok
          THEN /\ PollIteration(i, [tasks[i] EXCEPT !.request_id = RequestIdOf(i)],
                                obs[i])
               /\ remote' = remote \cup {RequestIdOf(i)}
          ELSE /\ RaiseInDownloadMedia(i, tasks[i], obs[i], Error("HTTPStatusError"))
               /\ UNCHANGED remote
    /\ UNCHANGED <<inputVars, jobPc, jobError, segments, segments_paths,
                   loopBlockedBy, workspace, output, manifest, mergeVars>>

\* wait_for_mediafile_ready called on its own, with any max_retries:
\* the call runs to its first await.
PollCall(i) ==
    /\ LoopRuns
    /\ tasks[i].pc = "poll_call"
    /\ PollIteration(i, tasks[i], obs[i])
    /\ UNCHANGED <<inputVars, jobPc, jobError, segments, segments_paths, remote,
                   loopBlockedBy, workspace, output, manifest, mergeVars>>

\* The answers of the status query: a state of the export, with its URL
\* once it is available, or an HTTP error.
StatusAnswers ==
    {[state |-> "PENDING", url |-> None], [state |-> "FAILED", url |-> None],
     [state |-> "HTTP_ERROR", url |-> None]}
    \cup {[state |-> "AVAILABLE", url |-> u] : u \in Urls}

\* The GET of get_mediafile_status answers (_mediafile.py:120-130).
\* AVAILABLE: the URL is returned and, in create_and_download_mediafile,
\* the download starts (__init__.py:36-41).  FAILED: SafieMediaFileError.
\* Anything else: asyncio.sleep(interval).
StatusReturn(i) ==
    /\ LoopRuns /\ AllStarted
    /\ tasks[i].pc = "querying"
    /\ \E status \in StatusAnswers :
        LET t == tasks[i]
            o == [obs[i] EXCEPT !.responses = Append(@, status)]
        IN  IF status.state = "HTTP_ERROR"
            THEN RaiseInDownloadMedia(i, t, o, Error("HTTPStatusError"))
            ELSE CASE PollDecision(status.state) = "return" ->
                        /\ tasks' = [tasks EXCEPT ![i] =
                              [t EXCEPT !.download_url = ReturnedUrl(status),
                                        !.pc = IF t.direct THEN "returned"
                                               ELSE "downloading"]]
                        /\ obs' = [obs EXCEPT ![i] =
                              IF t.direct THEN o
                              ELSE [o EXCEPT !.downloads =
                                       Append(@, ReturnedUrl(status))]]
                        /\ completed' = IF t.direct THEN Append(completed, i)
                                        ELSE completed
                        /\ UNCHANGED files
                   [] PollDecision(status.state) = "raise" ->
                        RaiseInDownloadMedia(i, t, o, Error("SafieMediaFileError"))
                   [] OTHER ->
                        /\ tasks' = [tasks EXCEPT ![i] = [t EXCEPT !.pc = "sleeping"]]
                        /\ obs' = [obs EXCEPT ![i] = [o EXCEPT !.sleeps = @ + 1]]
                        /\ UNCHANGED <<files, completed>>
    /\ UNCHANGED <<inputVars, jobPc, jobError, segments, segments_paths, remote,
                   loopBlockedBy, workspace, output, manifest, mergeVars>>

\* asyncio.sleep(interval) is over (_mediafile.py:130): the next iteration.
SleepReturn(i) ==
    /\ LoopRuns /\ AllStarted
    /\ tasks[i].pc = "sleeping"
    /\ PollIteration(i, tasks[i], obs[i])
    /\ UNCHANGED <<inputVars, jobPc, jobError, segments, segments_paths, remote,
                   loopBlockedBy, workspace, output, manifest, mergeVars>>

\* The stream of download_mediafile ends (_mediafile.py:90-95,
\* __init__.py:39-47).  On success download_success is set; the finally
\* clause then sends the DELETE when ShouldDelete says so, and otherwise the
\* pending exception (if any) goes on.  The export that was asked for covers
\* [start_time, adjusted_end_time), which is what the file then holds.
DownloadReturn(i) ==
    /\ LoopRuns /\ AllStarted
    /\ tasks[i].pc = "downloading"
    /\ \E ok \in BOOLEAN :
        LET pending == IF ok THEN NoError ELSE Error("SafieMediaFileError")
            t == [tasks[i] EXCEPT !.download_success = ok, !.error = pending]
            o == obs[i]
            written == IF ok
                       THEN WriteFile(files, SegmentFile(i - 1),
                                      t.adjusted_end_time - t.start_time)
                       ELSE files
        IN  IF ShouldDelete(t.download_success)
            THEN /\ tasks' = [tasks EXCEPT ![i] = [t EXCEPT !.pc = "deleting"]]
                 /\ obs' = [obs EXCEPT ![i] =
                               [o EXCEPT !.deletes = Append(@, t.request_id)]]
                 /\ files' = written
                 /\ UNCHANGED completed
            ELSE \* ShouldDelete is false only after a failed download
                 RaiseInDownloadMedia(i, t, o, pending)
    /\ UNCHANGED <<inputVars, jobPc, jobError, segments, segments_paths, remote,
                   loopBlockedBy, workspace, output, manifest, mergeVars>>

\* The DELETE answers (_client.py:74-77, _mediafile.py:62).  A failure is
\* raised by raise_for_status and leaves create_and_download_mediafile
\* through the finally clause; _download_media then unlinks the segment file.
\* On success _download_media returns and, when needs_clipping, the task
\* enters subprocess.run(ffmpeg ...) (_downloader.py:121-144), which holds
\* the loop's thread until it returns.
DeleteReturn(i) ==
    /\ LoopRuns /\ AllStarted
    /\ tasks[i].pc = "deleting"
    /\ \E ok \in BOOLEAN :
        LET t == tasks[i]
            o == obs[i]
        IN  IF ~ok
            THEN /\ RaiseInDownloadMedia(i, t, [o EXCEPT !.deleteFailed = TRUE],
                                         Error("HTTPStatusError"))
                 /\ UNCHANGED <<remote, loopBlockedBy>>
            ELSE /\ remote' = remote \ {t.request_id}
                 /\ IF t.error # NoError
                    THEN /\ RaiseInDownloadMedia(i, t, o, t.error)
                         /\ UNCHANGED loopBlockedBy
                    ELSE IF t.needs_clipping
                    THEN /\ tasks' = [tasks EXCEPT ![i] = [t EXCEPT !.pc = "trimming"]]
                         /\ obs' = [obs EXCEPT ![i] =
                                       [o EXCEPT !.trims = Append(@, ClipDuration(t))]]
                         /\ loopBlockedBy' = TaskHolder(i)
                         /\ UNCHANGED <<files, completed>>
                    ELSE /\ tasks' = [tasks EXCEPT ![i] = [t EXCEPT !.pc = "done"]]
                         /\ completed' = Append(completed, i)
                         /\ UNCHANGED <<obs, files, loopBlockedBy>>
    /\ UNCHANGED <<inputVars, jobPc, jobError, segments, segments_paths,
                   workspace, output, manifest, mergeVars>>

\* A trim whose finally clause is missing: only the manifest is removed.
RemoveOnlyFileList(fs, name) ==
    IF name = FileList /\ Exists(fs, name) THEN RemoveFile(fs, name) ELSE fs

\* A finally clause that leaves the file where it is.
RemoveNothing(fs, name) == fs

\* if temp_output_path.exists(): os.remove(...) (_downloader.py:161-162);
\* if os.path.exists(filelist_path): os.remove(...) (_downloader.py:241-243)
RemoveIfExists(fs, name) == IF Exists(fs, name) THEN RemoveFile(fs, name) ELSE fs

\* What subprocess.run of ffmpeg can do: exit 0, exit non-zero, or not be
\* found (FileNotFoundError).
ToolOutcomes == {"ok", "nonzero", "not_found"}

\* subprocess.run returns in _download_with_clipping (_downloader.py:144-162).
\* Exit 0: the clip of clip_duration is moved over the segment file.
\* Otherwise a RuntimeError leaves the task; the segment file stays (the
\* raise is outside _download_media).  The finally clause removes the
\* temporary file when ffmpeg left one.
TrimReturn(i) ==
    /\ loopBlockedBy = TaskHolder(i)
    /\ tasks[i].pc = "trimming"
    /\ \E outcome \in ToolOutcomes, left \in BOOLEAN :
        LET t == tasks[i]
            idx == i - 1
            clip_duration == obs[i].trims[Len(obs[i].trims)]
        IN  /\ outcome = "not_found" => ~left
            /\ outcome = "ok" => left
            /\ IF outcome = "ok"
               THEN /\ files' = RemoveIfExists(
                                   MoveFile(WriteFile(files, TempFile(idx),
                                                      clip_duration),
                                            TempFile(idx), SegmentFile(idx)),
                                   TempFile(idx))
                    /\ tasks' = [tasks EXCEPT ![i] = [t EXCEPT !.pc = "done"]]
               ELSE /\ files' = RemoveIfExists(
                                   IF left THEN WriteFile(files, TempFile(idx), 0)
                                   ELSE files,
                                   TempFile(idx))
                    /\ tasks' = [tasks EXCEPT ![i] =
                                    [t EXCEPT !.pc = "failed",
                                              !.error = Error("RuntimeError")]]
    /\ completed' = Append(completed, i)
    /\ loopBlockedBy' = Nobody
    /\ UNCHANGED <<inputVars, jobPc, jobError, segments, segments_paths, obs,
                   remote, workspace, output, manifest, mergeVars>>

\* --------------------------------------------------------- the main task
\* A segments_paths built back to front.
SegmentsPathsReversed(segs) == [k \in 1..Len(segs) |-> Len(segs) - k]

\* _download_segments' segments_paths (_downloader.py:80-84): the path of
\* segment index i is appended in the order of enumerate(segments).
SegmentsPaths(segs) == [k \in 1..Len(segs) |-> k - 1]

\* find_device_id answers (_downloader.py:30-44).  With a device id the
\* time range is cut into segments, the TemporaryDirectory is made, and
\* _download_segments creates one task per segment and awaits their gather.
FindDeviceReturn ==
    /\ jobPc = "find_device_id"
    /\ \E ok \in BOOLEAN :
        IF ok
        THEN LET segs == _create_time_segments(start_time, end_time,
                                               segment_duration)
             IN  /\ segments' = segs
                 /\ segments_paths' = SegmentsPaths(segs)
                 /\ tasks' = [k \in 1..Len(segs) |-> NewTask(segs[k])]
                 /\ obs' = [k \in 1..Len(segs) |-> NewObs]
                 /\ workspace' = "exists"
                 /\ jobPc' = "gather"
                 /\ UNCHANGED jobError
        ELSE /\ jobPc' = "raised"
             /\ jobError' = Error("SafieMediaFileError")
             /\ UNCHANGED <<segments, segments_paths, tasks, obs, workspace>>
    /\ UNCHANGED <<inputVars, completed, remote, loopBlockedBy, files, output,
                   manifest, mergeVars>>

\* A gather called with return_exceptions=True: it never raises.
GatherOutcomeReturnExceptions(ts) ==
    IF \A i \in DOMAIN ts : ts[i].pc \in Finished THEN "return" ELSE "pending"

\* asyncio.gather(*tasks) (_downloader.py:91): the first exception of a task
\* is raised to the awaiter at once, and the other tasks keep running; the
\* results are returned once every task is done.
GatherOutcome(ts) ==
    IF \E i \in DOMAIN ts : ts[i].pc = "failed" THEN "raise"
    ELSE IF \A i \in DOMAIN ts : ts[i].pc = "done" THEN "return"
    ELSE "pending"

\* The first task that failed, in the order in which the tasks finished.
FirstFailed ==
    LET k == CHOOSE k \in 1..Len(completed) :
                 /\ tasks[completed[k]].pc = "failed"
                 /\ \A j \in 1..(k - 1) : tasks[completed[j]].pc # "failed"
    IN  completed[k]

\* The gather raises: the exception leaves _download_segments
\* (_downloader.py:91) and reaches the with block of
\* download_media_from_device.  Nothing cancels the other tasks.
GatherRaise ==
    /\ jobPc = "gather"
    /\ loopBlockedBy = Nobody
    /\ GatherOutcome(tasks) = "raise"
    /\ jobError' = tasks[FirstFailed].error
    /\ jobPc' = "segments_raised"
    /\ UNCHANGED <<inputVars, segments, segments_paths, tasks, obs, completed,
                   remote, loopBlockedBy, fsVars, mergeVars>>

\* A merge that takes the concat path whatever the number of files.
IsSingleSegmentNever(segment_files) == FALSE

\* if len(segment_files) == 1: (_downloader.py:205)
IsSingleSegment(segment_files) == Len(segment_files) = 1

Durations(fs, paths) ==
    [k \in 1..Len(paths) |->
        IF Exists(fs, SegmentFile(paths[k])) THEN fs[SegmentFile(paths[k])] ELSE 0]

RECURSIVE SumSeq(_)
SumSeq(q) == IF q = <<>> THEN 0 ELSE q[1] + SumSeq(Tail(q))

\* The gather returns: _download_segments returns segments_paths and
\* _merge_segments is entered (_downloader.py:92, 45, 201-231).  No file:
\* RuntimeError.  One file: it is moved to output_path.  More: filelist.txt
\* is written in the order of segment_files and ffmpeg's concat is run by
\* subprocess.run, which holds the loop's thread.
GatherReturn ==
    /\ jobPc = "gather"
    /\ loopBlockedBy = Nobody
    /\ GatherOutcome(tasks) = "return"
    /\ mergeCalls' = mergeCalls + 1
    /\ LET segment_files == segments_paths
       IN  IF Len(segment_files) = 0
           THEN /\ jobError' = Error("RuntimeError")
                /\ jobPc' = "leaving_raise"
                /\ UNCHANGED <<files, output, manifest, concatCalls, loopBlockedBy>>
           ELSE IF IsSingleSegment(segment_files)
           THEN IF Exists(files, SegmentFile(segment_files[1]))
                THEN /\ output' = [state |-> "complete",
                                   duration |-> files[SegmentFile(segment_files[1])]]
                     /\ files' = RemoveFile(files, SegmentFile(segment_files[1]))
                     /\ jobPc' = "leaving_return"
                     /\ UNCHANGED <<jobError, manifest, concatCalls, loopBlockedBy>>
                ELSE /\ jobError' = Error("FileNotFoundError")
                     /\ jobPc' = "leaving_raise"
                     /\ UNCHANGED <<files, output, manifest, concatCalls,
                                    loopBlockedBy>>
           ELSE /\ files' = WriteFile(files, FileList, 0)
                /\ manifest' = segment_files
                /\ concatCalls' = Append(concatCalls, segment_files)
                /\ loopBlockedBy' = MainHolder
                /\ jobPc' = "concat"
                /\ UNCHANGED <<jobError, output>>
    /\ UNCHANGED <<inputVars, segments, segments_paths, tasks, obs, completed,
                   remote, workspace>>

\* subprocess.run of the concat returns (_downloader.py:231-245).  Exit 0:
\* the output holds the inputs one after the other.  Non-zero exit:
\* CalledProcessError becomes a RuntimeError, and ffmpeg may have written a
\* part of the output.  ffmpeg missing: FileNotFoundError goes on as it is.
\* The finally clause removes filelist.txt.
ConcatReturn ==
    /\ jobPc = "concat"
    /\ loopBlockedBy = MainHolder
    /\ \E outcome \in ToolOutcomes, partial \in BOOLEAN :
        /\ outcome # "nonzero" => ~partial
        /\ CASE outcome = "ok" ->
                   /\ output' = [state |-> "complete",
                                 duration |-> SumSeq(Durations(files, manifest))]
                   /\ jobPc' = "leaving_return"
                   /\ UNCHANGED jobError
             [] outcome = "nonzero" ->
                   /\ output' = IF partial THEN [state |-> "partial", duration |-> 0]
                                ELSE output
                   /\ jobError' = Error("RuntimeError")
                   /\ jobPc' = "leaving_raise"
             [] OTHER ->
                   /\ jobError' = Error("FileNotFoundError")
                   /\ jobPc' = "leaving_raise"
                   /\ UNCHANGED output
    /\ files' = RemoveIfExists(files, FileList)
    /\ loopBlockedBy' = Nobody
    /\ UNCHANGED <<inputVars, segments, segments_paths, tasks, obs, completed,
                   remote, workspace, manifest, mergeVars>>

\* A job that removes its directory only at the end of the with block's
\* body, not when an exception leaves it.
WorkspaceExitOnReturnOnly ==
    /\ jobPc \in {"segments_raised", "leaving_raise", "leaving_return"}
    /\ workspace' = IF jobPc = "leaving_return" THEN "destroyed" ELSE workspace
    /\ files' = IF jobPc = "leaving_return" THEN NoFiles ELSE files
    /\ jobPc' = IF jobPc = "leaving_return" THEN "returned" ELSE "raised"
    /\ UNCHANGED <<inputVars, jobError, segments, segments_paths, tasks, obs,
                   completed, remote, loopBlockedBy, output, manifest, mergeVars>>

\* The with block of download_media_from_device is left
\* (_downloader.py:41-45): TemporaryDirectory.__exit__ removes the
\* directory and what it holds, and the function returns or raises.
WorkspaceExit ==
    /\ jobPc \in {"segments_raised", "leaving_raise", "leaving_return"}
    /\ workspace' = "destroyed"
    /\ files' = NoFiles
    /\ jobPc' = IF jobPc = "leaving_return" THEN "returned" ELSE "raised"
    /\ UNCHANGED <<inputVars, jobError, segments, segments_paths, tasks, obs,
                   completed, remote, loopBlockedBy, output, manifest, mergeVars>>

\* asyncio.run (_cli_app.py:108) gets the job's result or exception and,
\* before it closes the loop, cancels every task that is still pending: the
\* CancelledError is raised at the task's await, is no Exception, and so is
\* not handled by _download_media's except clause nor followed by a DELETE.
RunnerShutdown ==
    /\ jobPc \in {"raised", "returned"}
    /\ tasks' = [i \in DOMAIN tasks |->
                    IF tasks[i].pc \in Finished THEN tasks[i]
                    ELSE [tasks[i] EXCEPT !.pc = "cancelled"]]
    /\ jobPc' = "exited"
    /\ UNCHANGED <<inputVars, jobError, segments, segments_paths, obs, completed,
                   remote, loopBlockedBy, fsVars, mergeVars>>

Next ==
    \/ FindDeviceReturn
    \/ \E i \in TaskIds : TaskStart(i)
    \/ \E i \in TaskIds : CreateReturn(i)
    \/ \E i \in TaskIds : StatusReturn(i)
    \/ \E i \in TaskIds : SleepReturn(i)
    \/ \E i \in TaskIds : DownloadReturn(i)
    \/ \E i \in TaskIds : DeleteReturn(i)
    \/ \E i \in TaskIds : TrimReturn(i)
    \/ GatherRaise
    \/ GatherReturn
    \/ ConcatReturn
    \/ WorkspaceExit
    \/ RunnerShutdown

\* The job, as main runs it.
Spec == Init /\ [][Next]_vars

\* ------------------------------------ _create_time_segments called alone
\* _create_time_segments(start_time, end_time, segment_duration) with any
\* times and any positive segment duration.
SegInit ==
    /\ start_time \in StartTimes
    /\ end_time \in EndTimes
    /\ segment_duration \in 1..MaxSegmentDuration
    /\ max_retries = DEFAULT_MAX_RETRIES
    /\ jobPc = "segment_call"
    /\ tasks = <<>>
    /\ obs = <<>>
    /\ output = NoOutput
    /\ InitCommon
    /\ ParseIdle

CreateTimeSegmentsCall ==
    /\ jobPc = "segment_call"
    /\ segments' = _create_time_segments(start_time, end_time, segment_duration)
    /\ jobPc' = "segment_returned"
    /\ UNCHANGED <<inputVars, jobError, segments_paths, tasks, obs, completed,
                   remote, loopBlockedBy, fsVars, mergeVars>>

SegNext == CreateTimeSegmentsCall

SegSpec == SegInit /\ [][SegNext]_vars

\* --------------------------------- wait_for_mediafile_ready called alone
\* wait_for_mediafile_ready(device_id, request_id, max_retries) awaited by a
\* caller, with any request id and any max_retries (_mediafile.py:97-103).
PollInit ==
    /\ start_time = 0
    /\ end_time = 0
    /\ segment_duration = _MAX_DURATION
    /\ max_retries \in 0..MaxRetriesArg
    /\ jobPc = "direct_call"
    /\ \E rid \in RequestIds :
          tasks = <<[NewTask(<<0, 0>>) EXCEPT !.direct = TRUE,
                                              !.pc = "poll_call",
                                              !.request_id = rid]>>
    /\ obs = <<NewObs>>
    /\ output = NoOutput
    /\ InitCommon
    /\ ParseIdle

PollNext ==
    \/ \E i \in TaskIds : PollCall(i)
    \/ \E i \in TaskIds : StatusReturn(i)
    \/ \E i \in TaskIds : SleepReturn(i)

PollSpec == PollInit /\ [][PollNext]_vars

\* ------------------------------------------ _parse_time_string called alone
\* _parse_time_string(time_string, default_tz) with any time string and any
\* default timezone, on either kind of interpreter.
ParseInit ==
    /\ time_string \in TimeStrings
    /\ default_tz \in DefaultTimezones
    /\ fromisoformat_accepts_z \in BOOLEAN
    /\ parsed = NotParsed
    /\ start_time = 0
    /\ end_time = 0
    /\ segment_duration = _MAX_DURATION
    /\ max_retries = DEFAULT_MAX_RETRIES
    /\ jobPc = "parse_call"
    /\ tasks = <<>>
    /\ obs = <<>>
    /\ output = NoOutput
    /\ InitCommon

ParseTimeStringCall ==
    /\ jobPc = "parse_call"
    /\ parsed' = _parse_time_string(time_string, default_tz)
    /\ jobPc' = "parse_returned"
    /\ UNCHANGED <<start_time, end_time, segment_duration, max_retries,
                   time_string, default_tz, fromisoformat_accepts_z, jobError,
                   segments, segments_paths, tasks, obs, completed, remote,
                   loopBlockedBy, fsVars, mergeVars>>

ParseNext == ParseTimeStringCall

ParseSpec == ParseInit /\ [][ParseNext]_vars

\* ======================================================================
\* The claims
\* ======================================================================

\* The reference partition of [st, en) into pieces of length d: its number
\* of pieces and its k-th piece (k = 1 is segment index 0).
RefCount(st, en, d) == ((en - st) + d - 1) \div d
RefSegment(st, en, d, k) == <<st + (k - 1) * d, Min(st + k * d, en)>>

\* C1: for start < end and d > 0, _create_time_segments returns the
\* reference partition: segment i is [start + i*d, min(start + (i+1)*d, end)),
\* there is at least one segment, the first starts at start, the last ends at
\* end, each segment ends where the next starts, every segment but the last
\* has length d, and a range shorter than d gives the one segment
\* (start, end).
C1_ReferencePartition ==
    (jobPc = "segment_returned" /\ start_time < end_time) =>
        LET n == Len(segments)
            d == segment_duration
        IN  /\ n = RefCount(start_time, end_time, d)
            /\ \A k \in 1..n :
                  segments[k] = RefSegment(start_time, end_time, d, k)
            /\ n >= 1
            /\ segments[1][1] = start_time
            /\ segments[n][2] = end_time
            /\ \A k \in 1..(n - 1) : segments[k][2] = segments[k + 1][1]
            /\ \A k \in 1..(n - 1) : segments[k][2] - segments[k][1] = d
            /\ segments[n][2] - segments[n][1] <= d
            /\ \A k \in 1..n : segments[k][1] < segments[k][2]
            /\ (end_time - start_time < d =>
                    segments = << <<start_time, end_time>> >>)

\* C1's case: a call that returned several segments, the last one shorter.
C1_Witness ==
    /\ jobPc = "segment_returned"
    /\ start_time > 0
    /\ Len(segments) >= 3
    /\ segments[Len(segments)][2] - segments[Len(segments)][1] < segment_duration
    /\ segments[Len(segments)][2] = end_time

\* The states of the statuses task i was answered with, so far.
ResponseStates(i) == [k \in DOMAIN obs[i].responses |-> obs[i].responses[k].state]

AllPending(i, n) == \A j \in 1..n : obs[i].responses[j].state = "PENDING"

\* C2: when the statuses are PENDING for the first k-1 queries and AVAILABLE
\* on the k-th, wait_for_mediafile_ready has returned that response's URL
\* after exactly k queries and k-1 sleeps, and k <= max_retries: no query
\* and no sleep follows the AVAILABLE response.
C2_AvailableReturnsAtOnce ==
    \A i \in TaskIds : \A k \in DOMAIN obs[i].responses :
        (obs[i].responses[k].state = "AVAILABLE" /\ AllPending(i, k - 1)) =>
            /\ tasks[i].pc = "returned"
            /\ tasks[i].download_url = obs[i].responses[k].url
            /\ Len(obs[i].responses) = k
            /\ obs[i].queries = k
            /\ obs[i].sleeps = k - 1
            /\ k <= max_retries

\* C2's case: PENDING, PENDING, AVAILABLE(U2).
C2_Witness ==
    \E i \in TaskIds :
        /\ ResponseStates(i) = <<"PENDING", "PENDING", "AVAILABLE">>
        /\ tasks[i].pc = "returned"
        /\ tasks[i].download_url = "U2"
        /\ obs[i].queries = 3
        /\ obs[i].sleeps = 2

\* C3: whatever the remote answers, at most max_retries status queries are
\* sent; when every answer is PENDING, exactly max_retries queries are sent
\* and then SafieMediaFileTimeoutError is raised with the request id; the
\* timeout is raised in no other case.  Until it has returned or raised the
\* poller has a next step, so it ends within max_retries queries.
C3_ExactlyMaxRetriesQueries ==
    \A i \in TaskIds :
        /\ obs[i].queries <= max_retries
        /\ tasks[i].pc \notin {"returned", "failed"} => ENABLED PollNext
        /\ Len(obs[i].responses) <= obs[i].queries
        /\ (/\ tasks[i].pc # "poll_call"
            /\ Len(obs[i].responses) = max_retries
            /\ AllPending(i, max_retries)) =>
              /\ obs[i].queries = max_retries
              /\ tasks[i].pc \in {"sleeping", "failed"}
              /\ tasks[i].pc = "failed" =>
                    tasks[i].error = TimeoutError(tasks[i].request_id)
        /\ tasks[i].error.type = "SafieMediaFileTimeoutError" =>
              /\ tasks[i].pc = "failed"
              /\ obs[i].queries = max_retries
              /\ Len(obs[i].responses) = max_retries
              /\ AllPending(i, max_retries)
              /\ tasks[i].error.request_id = tasks[i].request_id

\* C3's case: five PENDING answers with max_retries = 5, then the timeout.
C3_Witness ==
    \E i \in TaskIds :
        /\ max_retries >= 5
        /\ tasks[i].pc = "failed"
        /\ tasks[i].error = TimeoutError(tasks[i].request_id)
        /\ obs[i].queries = max_retries
        /\ AllPending(i, max_retries)

\* C4: on the first FAILED status the poller raises SafieMediaFileError at
\* once: that response is the last one, no query and no sleep follows it
\* (no sleep at all when it is the first response).
C4_FailedRaisesAtOnce ==
    \A i \in TaskIds : \A k \in DOMAIN obs[i].responses :
        obs[i].responses[k].state = "FAILED" =>
            /\ k = Len(obs[i].responses)
            /\ tasks[i].pc = "failed"
            /\ tasks[i].error = Error("SafieMediaFileError")
            /\ obs[i].queries = k
            /\ obs[i].sleeps = k - 1
            /\ AllPending(i, k - 1)

\* C4's case: FAILED is the first answer, and nothing was slept.
C4_Witness ==
    \E i \in TaskIds :
        /\ ResponseStates(i) = <<"FAILED">>
        /\ tasks[i].pc = "failed"
        /\ obs[i].queries = 1
        /\ obs[i].sleeps = 0

\* C5: a DELETE of an export request is sent only after the download of
\* that same request has succeeded: a task whose create failed, whose poll
\* timed out or was answered FAILED, or whose download raised sends none.
C5_DeleteOnlyAfterDownload ==
    \A i \in TaskIds : \A k \in DOMAIN obs[i].deletes :
        /\ tasks[i].download_success
        /\ tasks[i].request_id = RequestIdOf(i)
        /\ obs[i].deletes[k] = tasks[i].request_id
        /\ Len(obs[i].downloads) = 1
        /\ obs[i].responses[Len(obs[i].responses)].state = "AVAILABLE"
        /\ tasks[i].error.type # "SafieMediaFileTimeoutError"

\* C5's case: a task has downloaded and sent its DELETE, and another task
\* of the same job has failed to download and sent none.
C5_Witness ==
    \E i, j \in TaskIds :
        /\ tasks[i].download_success
        /\ obs[i].deletes = <<RequestIdOf(i)>>
        /\ tasks[j].pc = "failed"
        /\ Len(obs[j].downloads) = 1
        /\ ~tasks[j].download_success
        /\ obs[j].deletes = <<>>

\* C6: a failed DELETE is not fatal: when a segment's download succeeded and
\* the DELETE of its request then fails, the task does not fail, its segment
\* file is kept in the workspace, and the job does not raise.
C6_DeleteFailureNonFatal ==
    \A i \in TaskIds :
        (tasks[i].download_success /\ obs[i].deleteFailed) =>
            /\ tasks[i].pc # "failed"
            /\ workspace = "exists" => Exists(files, SegmentFile(i - 1))
            /\ jobError = NoError

SegmentDuration(i) == segments[i][2] - segments[i][1]

\* C7: a segment shorter than _MIN_DURATION is exported as
\* [start, start + _MIN_DURATION) and then trimmed to exactly end - start;
\* a segment of at least _MIN_DURATION is exported as [start, end) and is
\* never trimmed.  Each task sends one create, and one trim at most.
C7_PadAndTrim ==
    \A i \in TaskIds :
        LET st == segments[i][1]
            en == segments[i][2]
            short == SegmentDuration(i) < _MIN_DURATION
        IN  /\ tasks[i].pc # "created" =>
                  obs[i].creates =
                      IF short THEN << <<st, st + _MIN_DURATION>> >>
                      ELSE << <<st, en>> >>
            /\ ~short => obs[i].trims = <<>>
            /\ short => \A k \in DOMAIN obs[i].trims :
                            /\ obs[i].trims[k] = en - st
                            /\ k = 1
                            /\ Len(obs[i].creates) = 1
                            /\ tasks[i].download_success
            /\ (short /\ tasks[i].pc = "done") => obs[i].trims = <<en - st>>
            /\ (short /\ tasks[i].pc = "done" /\ workspace = "exists"
                      /\ mergeCalls = 0) =>
                  files[SegmentFile(i - 1)] = en - st

\* C7's case: a job of a full segment and a short one, both done.
C7_Witness ==
    /\ Len(tasks) = 2
    /\ SegmentDuration(1) = _MAX_DURATION
    /\ SegmentDuration(2) < _MIN_DURATION
    /\ tasks[1].pc = "done" /\ tasks[2].pc = "done"
    /\ obs[1].trims = <<>>
    /\ obs[1].creates = << segments[1] >>
    /\ obs[2].creates = << <<segments[2][1], segments[2][1] + _MIN_DURATION>> >>
    /\ obs[2].trims = <<SegmentDuration(2)>>

\* C8: fail-fast, no partial success: reconstruction (_merge_segments) is
\* entered only when every segment task is done, and once a task has failed
\* it is never entered and the job ends by raising: the gather raises
\* without waiting for the other tasks.
C8_FailFast ==
    /\ mergeCalls > 0 => \A i \in TaskIds : tasks[i].pc = "done"
    /\ (/\ jobPc = "gather"
        /\ loopBlockedBy = Nobody
        /\ \E i \in TaskIds : tasks[i].pc = "failed") => ENABLED GatherRaise
    /\ (\E i \in TaskIds : tasks[i].pc = "failed") =>
          /\ mergeCalls = 0
          /\ concatCalls = <<>>
          /\ output.state \in {"absent", "old"}
          /\ jobPc \in {"gather", "segments_raised", "raised", "exited"}
          /\ jobPc \in {"raised", "exited"} => jobError # NoError

\* C8's case: one task of two has failed, the other is done, and the job
\* has raised without merging.
C8_Witness ==
    \E i, j \in TaskIds :
        /\ tasks[i].pc = "failed"
        /\ tasks[j].pc = "done"
        /\ jobPc = "exited"
        /\ jobError = tasks[i].error
        /\ mergeCalls = 0

\* C9: when the error of the first failed task has left _download_segments,
\* every other task has been cancelled (or was finished already).
C9_SiblingsCancelledBeforePropagation ==
    jobPc = "segments_raised" => \A i \in TaskIds : tasks[i].pc \in Finished

IsIndexOrder(paths) ==
    /\ Len(paths) = Len(segments)
    /\ \A k \in DOMAIN paths : paths[k] = k - 1
    /\ \A j, k \in DOMAIN paths :
          j < k => segments[paths[j] + 1][1] < segments[paths[k] + 1][1]

\* C10: in whatever order the tasks finish, the files written to the
\* manifest and handed to ffmpeg's concat are in ascending segment index
\* order, which is the chronological order of the segments.
C10_ConcatInIndexOrder ==
    /\ \A c \in DOMAIN concatCalls : IsIndexOrder(concatCalls[c])
    /\ manifest # <<>> => IsIndexOrder(manifest)
    /\ jobPc = "concat" => (manifest # <<>> /\ concatCalls = <<manifest>>)

\* C10's case: the second segment's task finished before the first one's,
\* and the concat was run.
C10_Witness ==
    /\ completed = <<2, 1>>
    /\ jobPc = "concat"
    /\ manifest = <<0, 1>>
    /\ concatCalls = << <<0, 1>> >>

\* What task i's segment file holds once the task is done: the export that
\* was downloaded, or the clip that replaced it.
SegmentFileContent(i) ==
    IF tasks[i].needs_clipping THEN obs[i].trims[1]
    ELSE tasks[i].adjusted_end_time - tasks[i].start_time

\* C11: in a job of exactly one segment ffmpeg's concat is never run and no
\* manifest is written: _merge_segments moves the one segment file, as it
\* is, to output_path.
C11_SingleSegmentMoved ==
    Len(segments) = 1 =>
        /\ concatCalls = <<>>
        /\ manifest = <<>>
        /\ ~Exists(files, FileList)
        /\ jobPc # "concat"
        /\ loopBlockedBy # MainHolder
        /\ mergeCalls > 0 =>
              /\ output = [state |-> "complete", duration |-> SegmentFileContent(1)]
              /\ ~Exists(files, SegmentFile(0))
              /\ jobError = NoError

\* C11's case: a one-segment job whose clipped file (half a minute) was
\* moved to output_path.
C11_Witness ==
    /\ Len(segments) = 1
    /\ tasks[1].needs_clipping
    /\ mergeCalls = 1
    /\ jobPc = "leaving_return"
    /\ output = [state |-> "complete", duration |-> 1]

\* The job has handed its result or its exception to its caller.
JobOver == jobPc \in {"returned", "raised", "exited"}
JobRaised == jobPc \in {"raised", "exited"} /\ jobError # NoError

\* C12: whenever download_media_from_device has raised, whatever the stage
\* that failed, no partly written file is at output_path.
C12_NoPartialOutputAfterFailure ==
    JobRaised => output.state # "partial"

AwaitedStep(j) ==
    \/ CreateReturn(j)
    \/ StatusReturn(j)
    \/ SleepReturn(j)
    \/ DownloadReturn(j)
    \/ DeleteReturn(j)

\* C14: while ffmpeg runs the trim of one segment, a sibling task that is
\* polling or downloading can take its next step: the trim does not hold
\* the event loop.
C14_TrimDoesNotBlockSiblings ==
    \A i, j \in TaskIds :
        (/\ tasks[i].pc = "trimming"
         /\ tasks[j].pc \in {"querying", "sleeping", "downloading"}) =>
            ENABLED AwaitedStep(j)

\* The time strings that denote a time: a date and time, alone or followed
\* by an offset or by Z.
IsValidTimeString(s) ==
    \/ Len(s) = 1 /\ s[1] \in DateTimes
    \/ Len(s) = 2 /\ s[1] \in DateTimes /\ s[2] \in Offsets \cup {"Z"}

\* C15: for every time string that cannot be parsed as a time,
\* _parse_time_string raises a ValueError whose message contains
\* "Invalid time format", strings that end with Z included.
C15_InvalidTimeFormatMessage ==
    (jobPc = "parse_returned" /\ ~IsValidTimeString(time_string)) =>
        parsed = ValueError("Invalid time format")

\* C16: for every valid time string and every default timezone, the result
\* is a datetime with the string's wall-clock fields; an explicit offset is
\* kept whatever the default is, a Z suffix gives UTC whatever the default
\* is, and a string without zone gets exactly the default timezone (none,
\* when there is no default).
C16_TimezoneResolution ==
    (jobPc = "parse_returned" /\ IsValidTimeString(time_string)) =>
        /\ parsed.kind = "datetime"
        /\ parsed.wall = time_string[1]
        /\ parsed.tzinfo =
              IF Len(time_string) = 1 THEN default_tz
              ELSE IF time_string[2] = "Z" THEN UTC
              ELSE time_string[2]

\* A string with the offset +09:00 was parsed with the default -05:00.
C16_Witness ==
    /\ jobPc = "parse_returned"
    /\ time_string = <<"D1", "+09:00">>
    /\ default_tz = "-05:00"
    /\ parsed = DateTime("D1", "+09:00")

\* C17: the segmented retrieval path never issues a delete for any
\* segment's export request, in any execution, the executions in which
\* every segment downloads successfully included.
C17_SegmentedPathNeverDeletes ==
    \A i \in TaskIds : obs[i].deletes = <<>>

\* C17, as the code has it: a segment task issues a delete for its export
\* request exactly when its download succeeded; it issues at most one, for
\* the request id that create returned.
C17_DeleteIffDownloadSucceeded ==
    \A i \in TaskIds :
        /\ Len(obs[i].deletes) <= 1
        /\ obs[i].deletes # <<>> <=> tasks[i].download_success
        /\ obs[i].deletes # <<>> =>
              /\ obs[i].deletes[1] = tasks[i].request_id
              /\ tasks[i].request_id = RequestIdOf(i)

\* A job of two segments in which every segment was downloaded: each task
\* has issued its delete, and the job has returned.
C17_Witness ==
    /\ Len(segments) = 2
    /\ jobPc = "returned"
    /\ \A i \in TaskIds :
          /\ tasks[i].pc = "done"
          /\ tasks[i].download_success
          /\ obs[i].deletes = <<RequestIdOf(i)>>

\* Task i got an answer with this state to one of its status queries.
HasState(i, state) ==
    \E k \in 1..Len(obs[i].responses) : obs[i].responses[k].state = state

\* C18: per segment the remote operations come in the order create, status
\* queries, download, delete.  No status query is issued before create
\* returned a request id; the download is started only after a status query
\* returned Available with a URL (the last answer, and the URL that is
\* downloaded); no download is started when create failed or the poll ended
\* in Failed or in the timeout; no status query follows the start of the
\* download; the delete is issued only once the download is over.
C18_LifecycleOrder ==
    \A i \in TaskIds :
        LET t == tasks[i]
            o == obs[i]
            n == Len(o.responses)
        IN  ~t.direct =>
            /\ o.queries > 0 => (o.creates # <<>> /\ t.request_id = RequestIdOf(i))
            /\ t.pc = "creating" => (o.queries = 0 /\ o.downloads = <<>>)
            /\ o.downloads # <<>> =>
                  /\ n > 0 /\ n = o.queries
                  /\ o.responses[n].state = "AVAILABLE"
                  /\ o.responses[n].url \in Urls
                  /\ o.downloads = <<o.responses[n].url>>
                  /\ \A k \in 1..(n - 1) : o.responses[k].state = "PENDING"
                  /\ t.pc \notin {"created", "creating", "querying", "sleeping"}
            /\ (t.request_id = 0 \/ HasState(i, "FAILED")
                  \/ HasState(i, "HTTP_ERROR")
                  \/ t.error.type = "SafieMediaFileTimeoutError") =>
                  o.downloads = <<>>
            /\ o.deletes # <<>> => (o.downloads # <<>> /\ t.pc # "downloading")

\* A segment went through the whole lifecycle: created, found pending and
\* then available, downloaded, deleted.
C18_Witness ==
    \E i \in TaskIds :
        /\ tasks[i].pc = "done"
        /\ Len(obs[i].creates) = 1
        /\ obs[i].queries = 2
        /\ obs[i].downloads = <<"U2">>
        /\ obs[i].deletes = <<RequestIdOf(i)>>

\* C19: nothing but the readiness status query is retried: each segment
\* issues at most one create request, at most one download and at most one
\* trim invocation, and the job enters _merge_segments and invokes the
\* concatenation at most once, whether or not they fail.
C19_NoRetry ==
    /\ \A i \in TaskIds :
          /\ Len(obs[i].creates) <= 1
          /\ Len(obs[i].downloads) <= 1
          /\ Len(obs[i].trims) <= 1
    /\ mergeCalls <= 1
    /\ Len(concatCalls) <= 1

\* The job is over after a download failed: the segment was created once
\* and downloaded once, and was not asked for again.
C19_Witness ==
    /\ jobPc = "exited"
    /\ \E i \in TaskIds :
          /\ tasks[i].pc = "failed"
          /\ Len(obs[i].creates) = 1
          /\ Len(obs[i].downloads) = 1
          /\ ~tasks[i].download_success

FilesOfSegment(idx) == {SegmentFile(idx), TempFile(idx)} \cap DOMAIN files

\* C21: for a segment that needs trimming, the temporary trim artifact does
\* not exist once _download_with_clipping has exited, whether the trim
\* succeeded, the tool exited non-zero or the tool was missing; and after a
\* successful trim the workspace holds, until the merge, exactly one file
\* for the segment, at its index-named path, with the trimmed content.
C21_TempRemovedOnEveryExit ==
    \A i \in TaskIds :
        (tasks[i].needs_clipping /\ tasks[i].pc \in Finished) =>
            /\ ~Exists(files, TempFile(i - 1))
            /\ (tasks[i].pc = "done" /\ jobPc = "gather") =>
                  /\ FilesOfSegment(i - 1) = {SegmentFile(i - 1)}
                  /\ files[SegmentFile(i - 1)] = ClipDuration(tasks[i])

\* The short last segment of a two-segment job was trimmed while the job
\* still waits for the first: its one file holds the 30 seconds asked for.
C21_Witness ==
    /\ jobPc = "gather"
    /\ Len(segments) = 2
    /\ tasks[2].needs_clipping
    /\ tasks[2].pc = "done"
    /\ tasks[1].pc \notin Finished
    /\ FilesOfSegment(1) = {SegmentFile(1)}
    /\ files[SegmentFile(1)] = 1

\* C22: an export request whose download completed successfully has had
\* exactly one delete issued for it, from the end of the download on and so
\* before its segment task finishes; an export request that was created but
\* whose task failed without a successful download (the poll timed out or
\* reported Failed, a status query or the download failed) has had no delete
\* and is still present on the remote service, up to the end of the job.
C22_DeleteOnceOrLeftBehind ==
    \A i \in TaskIds :
        LET t == tasks[i]
        IN  ~t.direct =>
            /\ t.download_success =>
                  /\ obs[i].deletes = <<t.request_id>>
                  /\ t.pc \in Finished \cup {"deleting", "trimming"}
            /\ (t.request_id # 0 /\ t.pc = "failed" /\ ~t.download_success) =>
                  /\ obs[i].deletes = <<>>
                  /\ t.request_id \in remote

\* The job is over: one segment's download succeeded and its request was
\* deleted, the other's poll reported Failed and its request is still on
\* the remote service.
C22_Witness ==
    /\ jobPc = "exited"
    /\ \E i, j \in TaskIds :
          /\ tasks[i].pc = "done"
          /\ tasks[i].download_success
          /\ obs[i].deletes = <<RequestIdOf(i)>>
          /\ RequestIdOf(i) \notin remote
          /\ tasks[j].pc = "failed"
          /\ HasState(j, "FAILED")
          /\ RequestIdOf(j) \in remote

\* C23: at the moment the workspace is destroyed and
\* download_media_from_device returns or raises to its caller, no segment
\* task is still in progress (polling, downloading into a workspace file, or
\* trimming).
C23_NoTaskInProgressAtExit ==
    (jobPc \in {"returned", "raised"} /\ workspace = "destroyed") =>
        \A i \in TaskIds : tasks[i].pc \in Finished

\* C24: with _MAX_DURATION at least _MIN_DURATION, at most one segment of a
\* job is padded and trimmed, and it can only be the last one: every other
\* segment is at least _MIN_DURATION long, is exported with exactly its own
\* range and is never trimmed.
C24_OnlyLastSegmentTrimmed ==
    LET n == Len(segments)
    IN  /\ _MAX_DURATION >= _MIN_DURATION
        /\ \A i \in TaskIds : \A j \in TaskIds :
              (tasks[i].needs_clipping /\ tasks[j].needs_clipping) => i = j
        /\ \A i \in TaskIds :
              ~tasks[i].direct =>
                  /\ (tasks[i].needs_clipping \/ obs[i].trims # <<>>) => i = n
                  /\ i < n =>
                        /\ segments[i][2] - segments[i][1] >= _MIN_DURATION
                        /\ tasks[i].adjusted_end_time = segments[i][2]
                        /\ tasks[i].pc # "created" =>
                              obs[i].creates = <<segments[i]>>

\* A job of two segments has ended: the first was exported with its own ten
\* minutes and not trimmed, the last (half a minute) was padded to one
\* minute and trimmed.
C24_Witness ==
    /\ Len(segments) = 2
    /\ jobPc = "returned"
    /\ obs[1].creates = <<<<0, 20>>>>
    /\ obs[1].trims = <<>>
    /\ obs[2].creates = <<<<20, 22>>>>
    /\ obs[2].trims = <<1>>

\* C25: when download_media_from_device is called with
\* start_time >= end_time, the segment list is empty, no segment task is
\* launched and no export request is created, the output path is left as it
\* was, and once the device has been found the job cannot but enter
\* _merge_segments, which raises the RuntimeError of the empty list ("No
\* segments to merge"); the job ends with that error and the workspace
\* destroyed.  (Without segments no other RuntimeError can arise.)
C25_EmptyRangeFails ==
    start_time >= end_time =>
        /\ segments = <<>> /\ tasks = <<>> /\ remote = {}
        /\ mergeCalls <= 1 /\ concatCalls = <<>> /\ files = NoFiles
        /\ output.state \in {"absent", "old"}
        /\ jobPc \in {"find_device_id", "gather", "leaving_raise", "raised", "exited"}
        /\ jobPc = "gather" => (workspace = "exists" /\ ENABLED GatherReturn)
        /\ jobPc = "leaving_raise" =>
              (jobError = Error("RuntimeError") /\ mergeCalls = 1)
        /\ (jobPc \in {"raised", "exited"} /\ workspace # "none") =>
              /\ jobError = Error("RuntimeError")
              /\ mergeCalls = 1
              /\ workspace = "destroyed"
        /\ (jobPc \in {"raised", "exited"} /\ workspace = "none") =>
              (jobError = Error("SafieMediaFileError") /\ mergeCalls = 0)

\* A job over an empty range has ended with the RuntimeError; the file that
\* was at the output path before is still there.
C25_Witness ==
    /\ start_time = 1 /\ end_time = 0
    /\ jobPc = "exited"
    /\ jobError = Error("RuntimeError")
    /\ mergeCalls = 1
    /\ workspace = "destroyed"
    /\ output = OldOutput

====
